---- MODULE Spec2Model ----
(***************************************************************************)
(* Model of app.py: the Flask screen-recording intake server.              *)
(*                                                                         *)
(* State: the three process-wide containers (recordings_storage,           *)
(* recording_log, error_log), the Flask session of each browser, the       *)
(* wall clock, and the request being served together with its response.    *)
(* One action per route handler; every handler runs to completion.         *)
(*                                                                         *)
(* Optional values (Python None / a value) are sequences of length <= 1.   *)
(* Python str values are TLA+ strings, bytes are sequences of 0..255.      *)
(*                                                                         *)
(* History variables, read by the properties only:                         *)
(*   uploads    every accepted upload in order: id, bytes, log entry       *)
(*   logged_in  per browser: a login with the configured credentials has   *)
(*              been posted and /admin/logout has not been requested since *)
(*   errors     every entry log_error has appended, in order               *)
(*                                                                         *)
(* config is the environment read once at import; drive_files is the       *)
(* content of the Google Drive folder; workers holds the position and the  *)
(* locals of each request thread when uploads are handled concurrently.    *)
(***************************************************************************)
EXTENDS Integers, Sequences, FiniteSets, TLC

VARIABLES recordings_storage, recording_log, error_log, session, now,
          request, response, uploads, logged_in,
          config, drive_files, workers, errors, page

vars == <<recordings_storage, recording_log, error_log, session, now,
          request, response, uploads, logged_in,
          config, drive_files, workers, errors, page>>

\* what the route handlers of the sequential specifications never write
env == <<config, drive_files, workers, page>>

(* ------------------------------ bounds --------------------------------- *)
MaxUploads == 2
MaxErrors == 1
MaxAdminErrors == 2
MaxTime == 1
MaxLogUploads == 150
LogFreeUploads == 2
MaxRelayErrors == 2
MaxDriveFiles == 2
MaxErrLogged == 60
ErrFreeCalls == 2
MaxConcUploads == 102
ConcFreeUploads == 2
MaxRecordings == 2
MaxMinutes == 16
MaxStartMinute == 1

(* ------------------------- program constants --------------------------- *)
ADMIN_USERNAME == "admin"
ADMIN_PASSWORD == "change-in-production"
RecordingLogCap == 100
ErrorLogCap == 50
IdLen == 8
AutoStopMs == 900000
\* the auto-stop delay in minutes, the unit of the page clock
AutoStopMinutes == AutoStopMs \div 60000

(* ------------------------------ helpers -------------------------------- *)
None == << >>
Some(v) == <<v>>

EmptyDict == [k \in {} |-> ""]

\* dict.get(key): None when the key is absent
DictGet(d, k) == IF k \in DOMAIN d THEN Some(d[k]) ELSE None

\* dict.get(key, default)
DictGetDefault(d, k, default) == IF k \in DOMAIN d THEN d[k] ELSE default

\* d[k] = v on a Python dict: insert or overwrite
DictPut(d, k, v) == [x \in DOMAIN d \cup {k} |-> IF x = k THEN v ELSE d[x]]

Last(s) == s[Len(s)]

Min(a, b) == IF a < b THEN a ELSE b

\* reversed(list)
Reversed(s) == [i \in 1..Len(s) |-> s[Len(s) + 1 - i]]

\* the last n elements of s (all of s when it is shorter)
LastN(s, n) == SubSeq(s, Len(s) - Min(Len(s), n) + 1, Len(s))

EndsWith(s, t) == Len(t) <= Len(s) /\ SubSeq(s, Len(s) - Len(t) + 1, Len(s)) = t

(* ------------------------------ inputs --------------------------------- *)
Clients == {"c1", "c2"}

\* uuid4() results; the first two agree on their first 8 characters
Uuids == { "3f2a9c1e-7b64-4d0a-9e57-1c2d3e4f5a6b",
           "3f2a9c1e-02cd-4f11-8a3e-99aa00bb11cc",
           "b7d04e55-61f3-4c2b-b0f8-5a4b3c2d1e0f" }

Datas == { << >>, <<104, 105>> }

\* the `recording` part: a named file, or the empty part a browser sends for
\* a file input with nothing selected (empty filename, no content)
FileStorages ==
    {[filename |-> "", data |-> << >>]}
    \cup [filename : {"recording.webm"}, data : Datas]

\* request.files of an upload: with or without a `recording` part
FilesDicts == {EmptyDict} \cup {[recording |-> f] : f \in FileStorages}

\* request.form of an upload from the capture page, which always sends `duration`
UploadForms == {[duration |-> "00:05"]}

UrlRoots == {"http://host/"}

\* <recording_id> path parameters: ids that may be issued and one that never is
PathIds == {SubSeq(u, 1, IdLen) : u \in Uuids} \cup {"doesnotexist"}

Usernames == {ADMIN_USERNAME, "mallory"}
Passwords == {ADMIN_PASSWORD, "guess"}

\* request.form of a login POST: each field present or missing
LoginForms ==
    {EmptyDict}
    \cup {[username |-> u] : u \in Usernames}
    \cup {[password |-> p] : p \in Passwords}
    \cup {[username |-> u, password |-> p] : u \in Usernames, p \in Passwords}

(* --------------------------- initial state ----------------------------- *)
NoRequest == [route |-> "none"]
NoResponse == [status |-> 0, kind |-> "none"]

\* the environment of a deployment: GOOGLE_CREDENTIALS_JSON unset, set to
\* text that is no JSON, or set to a service-account document; the Google
\* client libraries importable or not
CredentialValues ==
    {None, Some("not json"), Some("{\"client_email\": \"svc@project\"}")}

Configs ==
    [GOOGLE_CREDENTIALS_JSON : CredentialValues, google_drive_available : BOOLEAN]

\* os.getenv('GOOGLE_CREDENTIALS_JSON') with the variable unset
DefaultConfig ==
    [GOOGLE_CREDENTIALS_JSON |-> None, google_drive_available |-> TRUE]

Workers == {"t1", "t2"}

IdleWorker == [pc |-> "idle"]

\* the capture page as loaded: no recorder, the stop button disabled
InitPage ==
    [ mediaRecorder |-> 0,
      stream |-> 0,
      recordBtn_disabled |-> FALSE,
      stopBtn_disabled |-> TRUE,
      share_active |-> FALSE,
      status |-> "",
      pending |-> 0,
      clock |-> 0,
      recorders |-> << >> ]

\* module state at import, whatever the environment
InitState ==
    /\ recordings_storage = EmptyDict
    /\ recording_log = << >>
    /\ error_log = << >>
    /\ session = [c \in Clients |-> EmptyDict]
    /\ now = 0
    /\ request = NoRequest
    /\ response = NoResponse
    /\ uploads = << >>
    /\ logged_in = [c \in Clients |-> FALSE]
    /\ drive_files = << >>
    /\ workers = [w \in Workers |-> IdleWorker]
    /\ page = InitPage
    /\ errors = << >>

Init == InitState /\ config = DefaultConfig

\* any deployment
InitDeployed == InitState /\ config \in Configs


(* ---------------------------- responses -------------------------------- *)
\* flask.Response: status, mimetype, body, extra headers
Resp(status, mimetype, body, headers) ==
    [status |-> status, mimetype |-> mimetype, body |-> body, headers |-> headers]

\* jsonify(body), status
JsonResponse(status, body) == Resp(status, "application/json", body, EmptyDict)

\* a bare string returned from a view, with a status
TextResponse(status, text) == Resp(status, "text/html", [text |-> text], EmptyDict)

\* render_template_string(...): the template and the values it is rendered with
PageResponse(status, rendered) == Resp(status, "text/html", rendered, EmptyDict)

\* redirect(url_for(endpoint))
Redirect(location) == Resp(302, "text/html", [text |-> ""], [Location |-> location])

\* an exception that escapes a view: Flask answers 500
UnhandledException == TextResponse(500, "Internal Server Error")

(* ------------------------- password checking --------------------------- *)
\* hashlib.pbkdf2_hmac('sha256', pw, b'admin-salt', 100000).hex():
\* a deterministic digest; distinct passwords of the model have distinct digests
Pbkdf2Hex(password) == "pbkdf2:admin-salt:" \o password

get_admin_hash == Pbkdf2Hex(ADMIN_PASSWORD)

\* verify_admin_password comparing the configured hash with itself: any
\* password passes for the configured username
verify_admin_password_any_password(username, password) ==
    IF username # Some(ADMIN_USERNAME) THEN "false"
    ELSE IF password = None THEN "raise"
    ELSE IF get_admin_hash = Pbkdf2Hex(ADMIN_PASSWORD) THEN "true"
    ELSE "false"

\* verify_admin_password(username, password); both are optional values.
\* Result "true" / "false", or "raise" when None.encode() is evaluated.
verify_admin_password(username, password) ==
    IF username # Some(ADMIN_USERNAME) THEN "false"
    ELSE IF password = None THEN "raise"
    ELSE IF get_admin_hash = Pbkdf2Hex(password[1]) THEN "true"
    ELSE "false"

(* ------------------------------ logging -------------------------------- *)
\* log_error with pop() in place of pop(0): the entry just appended is dropped
log_errorPopNewest(log, message, t) ==
    LET appended == Append(log, [timestamp |-> t, message |-> message])
    IN  IF Len(appended) > ErrorLogCap
        THEN SubSeq(appended, 1, Len(appended) - 1)
        ELSE appended

\* log_error(message): the error log after the call, at time t
log_error(log, message, t) ==
    LET appended == Append(log, [timestamp |-> t, message |-> message])
    IN  IF Len(appended) > ErrorLogCap THEN Tail(appended) ELSE appended

\* history of log_error: the entry it appends, never trimmed
LogHistory(history, message, t) ==
    Append(history, [timestamp |-> t, message |-> message])

\* LogRecording with pop() in place of pop(0): the newest entry is dropped
LogRecordingPopNewest(log, entry) ==
    LET appended == Append(log, entry)
    IN  IF Len(appended) > RecordingLogCap
        THEN SubSeq(appended, 1, Len(appended) - 1)
        ELSE appended

\* recording_log.append(entry); if len(recording_log) > 100: recording_log.pop(0)
LogRecording(log, entry) ==
    LET appended == Append(log, entry)
    IN  IF Len(appended) > RecordingLogCap THEN Tail(appended) ELSE appended

(* ------------------------- upload (issuance) --------------------------- *)
\* FileTruthy that also refuses a named file of zero bytes
FileTruthyNonEmpty(recording_file) ==
    /\ recording_file # None
    /\ recording_file[1].filename # ""
    /\ Len(recording_file[1].data) > 0

\* `if not recording_file`: None is falsy, and so is a FileStorage whose
\* filename is empty (FileStorage.__bool__ is bool(self.filename))
FileTruthy(recording_file) ==
    recording_file # None /\ recording_file[1].filename # ""

\* str(uuid.uuid4())[:8]
UniqueId(uuid) == SubSeq(uuid, 1, IdLen)

\* Filename built from the prefix and the timestamp alone
FilenameOfTimestamp(timestamp, unique_id) ==
    "blueshift-recording-" \o ToString(timestamp) \o ".webm"

\* f"blueshift-recording-{timestamp}-{unique_id}.webm"
Filename(timestamp, unique_id) ==
    "blueshift-recording-" \o ToString(timestamp) \o "-" \o unique_id \o ".webm"

\* NewRecording with size_bytes taken from the filename instead of the data
NewRecordingSizeOfName(filename, file_data, duration, t) ==
    [ filename |-> filename,
      data |-> file_data,
      duration |-> duration,
      created_at |-> t,
      size_bytes |-> Len(filename),
      content_type |-> "video/webm" ]

\* NewRecording with the upload stream read a second time for `data`
\* (a second read() of a consumed stream returns b'')
NewRecordingSecondRead(filename, file_data, duration, t) ==
    [ filename |-> filename,
      data |-> << >>,
      duration |-> duration,
      created_at |-> t,
      size_bytes |-> Len(file_data),
      content_type |-> "video/webm" ]

\* the record inserted into recordings_storage
NewRecording(filename, file_data, duration, t) ==
    [ filename |-> filename,
      data |-> file_data,
      duration |-> duration,
      created_at |-> t,
      size_bytes |-> Len(file_data),
      content_type |-> "video/webm" ]

\* StoreInsert as recordings_storage.setdefault(unique_id, {...}): a record
\* already stored under the id is kept
StoreInsertKeepFirst(storage, unique_id, recording) ==
    IF unique_id \in DOMAIN storage THEN storage ELSE DictPut(storage, unique_id, recording)

\* StoreInsert that trims the store together with the log: once the log is
\* full, the record of the log's oldest entry is deleted
StoreInsertEvicting(storage, unique_id, recording) ==
    LET put == DictPut(storage, unique_id, recording)
        keep == IF Len(recording_log) >= RecordingLogCap
                THEN (DOMAIN put) \ ({recording_log[1].id} \ {unique_id})
                ELSE DOMAIN put
    IN  [id \in keep |-> put[id]]

\* recordings_storage[unique_id] = {...}
StoreInsert(storage, unique_id, recording) == DictPut(storage, unique_id, recording)

\* the entry appended to recording_log
NewLogEntry(unique_id, filename, file_data, duration, t) ==
    [ id |-> unique_id,
      filename |-> filename,
      duration |-> duration,
      stored_at |-> t,
      size_bytes |-> Len(file_data) ]

\* RecordingUrl pointing at the raw-bytes route instead of the watch page
RecordingUrlVideoRoute(url_root, unique_id) == url_root \o "api/video/" \o unique_id

\* f"{request.url_root}watch/{unique_id}"
RecordingUrl(url_root, unique_id) == url_root \o "watch/" \o unique_id

\* upload requests: a body Flask can parse (fault = None), or one whose
\* parsing raises inside the handler's try block (fault = the exception text)
UploadRequests ==
    [fault : {None}, files : FilesDicts, form : UploadForms, url_root : UrlRoots]
    \cup [fault : {Some("400 Bad Request")}, files : {EmptyDict},
          form : {EmptyDict}, url_root : UrlRoots]

\* POST /api/store-recording
store_recording(req, uuid) ==
    LET recording_file == DictGet(req.files, "recording")
        duration == DictGetDefault(req.form, "duration", "00:00")
    IN
    /\ request' = [route |-> "store_recording", req |-> req]
    /\ IF req.fault # None
       THEN \* except Exception as e
            LET error_msg == "Storage failed: " \o req.fault[1] IN
            /\ error_log' = log_error(error_log, error_msg, now)
            /\ errors' = LogHistory(errors, error_msg, now)
            /\ response' = JsonResponse(500, [error |-> error_msg])
            /\ UNCHANGED <<recordings_storage, recording_log, uploads>>
       ELSE IF ~FileTruthy(recording_file)
       THEN /\ response' = JsonResponse(400, [error |-> "No recording file provided"])
            /\ UNCHANGED <<recordings_storage, recording_log, error_log, errors, uploads>>
       ELSE LET timestamp == now
                unique_id == UniqueId(uuid)
                filename == Filename(timestamp, unique_id)
                file_data == recording_file[1].data
                entry == NewLogEntry(unique_id, filename, file_data, duration, now)
            IN
            /\ recordings_storage' =
                   StoreInsert(recordings_storage, unique_id,
                               NewRecording(filename, file_data, duration, now))
            /\ recording_log' = LogRecording(recording_log, entry)
            /\ response' =
                   JsonResponse(200,
                       [ success |-> TRUE,
                         recording_url |-> RecordingUrl(req.url_root, unique_id),
                         recording_id |-> unique_id,
                         message |-> "Recording stored successfully" ])
            /\ uploads' = Append(uploads,
                                 [id |-> unique_id, data |-> file_data, entry |-> entry])
            /\ UNCHANGED <<error_log, errors>>
    /\ UNCHANGED <<session, now, logged_in>>
    /\ UNCHANGED env

(* ----------------------------- retrieval ------------------------------- *)
\* GET /watch/<recording_id>
watch_recording(recording_id) ==
    /\ request' = [route |-> "watch_recording", recording_id |-> recording_id]
    /\ response' =
         IF recording_id \notin DOMAIN recordings_storage
         THEN PageResponse(404, [template |-> "Recording Not Found"])
         ELSE LET recording == recordings_storage[recording_id] IN
              PageResponse(200,
                  [ template |-> "player",
                    video_src |-> "/api/video/" \o recording_id,
                    download_href |-> "/api/download/" \o recording_id,
                    duration |-> recording.duration,
                    size_bytes |-> recording.size_bytes,
                    created_at |-> recording.created_at ])
    /\ UNCHANGED <<recordings_storage, recording_log, error_log, errors, session, now,
                   uploads, logged_in>>
    /\ UNCHANGED env

\* VideoResponse without the membership test: the KeyError raised by
\* recordings_storage[recording_id] is caught and answered with 500
VideoResponseNoCheck(storage, recording_id) ==
    IF recording_id \notin DOMAIN storage
    THEN TextResponse(500, "Internal Server Error")
    ELSE LET recording == storage[recording_id] IN
         Resp(200, recording.content_type, recording.data,
              [ ContentDisposition |-> "inline; filename=\"" \o recording.filename \o "\"",
                ContentLength |-> ToString(recording.size_bytes) ])

\* the response of GET /api/video/<recording_id> in store `storage`
VideoResponse(storage, recording_id) ==
    IF recording_id \notin DOMAIN storage
    THEN TextResponse(404, "Recording not found")
    ELSE LET recording == storage[recording_id] IN
         Resp(200, recording.content_type, recording.data,
              [ ContentDisposition |-> "inline; filename=\"" \o recording.filename \o "\"",
                ContentLength |-> ToString(recording.size_bytes) ])

\* DownloadResponse copied from the video route with its disposition kept
DownloadResponseInline(storage, recording_id) ==
    IF recording_id \notin DOMAIN storage
    THEN TextResponse(404, "Recording not found")
    ELSE LET recording == storage[recording_id] IN
         Resp(200, "application/octet-stream", recording.data,
              [ ContentDisposition |-> "inline; filename=\"" \o recording.filename \o "\"",
                ContentLength |-> ToString(recording.size_bytes) ])

\* the response of GET /api/download/<recording_id> in store `storage`
DownloadResponse(storage, recording_id) ==
    IF recording_id \notin DOMAIN storage
    THEN TextResponse(404, "Recording not found")
    ELSE LET recording == storage[recording_id] IN
         Resp(200, "application/octet-stream", recording.data,
              [ ContentDisposition |-> "attachment; filename=\"" \o recording.filename \o "\"",
                ContentLength |-> ToString(recording.size_bytes) ])

\* GET /api/video/<recording_id>
serve_video(recording_id) ==
    /\ request' = [route |-> "serve_video", recording_id |-> recording_id]
    /\ response' = VideoResponse(recordings_storage, recording_id)
    /\ UNCHANGED <<recordings_storage, recording_log, error_log, errors, session, now,
                   uploads, logged_in>>
    /\ UNCHANGED env

\* GET /api/download/<recording_id>
download_recording(recording_id) ==
    /\ request' = [route |-> "download_recording", recording_id |-> recording_id]
    /\ response' = DownloadResponse(recordings_storage, recording_id)
    /\ UNCHANGED <<recordings_storage, recording_log, error_log, errors, session, now,
                   uploads, logged_in>>
    /\ UNCHANGED env

(* ------------------------------- admin --------------------------------- *)
\* `if not session.get('authenticated')`
Authenticated(sess) ==
    LET flag == DictGet(sess, "authenticated") IN flag # None /\ flag[1] = TRUE

\* what require_auth answers instead of calling the view
AuthRequired(is_json) ==
    IF is_json
    THEN JsonResponse(401, [error |-> "Authentication required"])
    ELSE Redirect("/admin/login")

\* require_auth(f): f's response for an authenticated session
require_auth(sess, is_json, view_response) ==
    IF ~Authenticated(sess) THEN AuthRequired(is_json) ELSE view_response

\* message.replace('<', '&lt;').replace('>', '&gt;')
RECURSIVE HtmlEscape(_)
HtmlEscape(message) ==
    IF Len(message) = 0 THEN ""
    ELSE LET ch == SubSeq(message, 1, 1)
             rest == HtmlEscape(SubSeq(message, 2, Len(message)))
         IN  IF ch = "<" THEN "&lt;" \o rest
             ELSE IF ch = ">" THEN "&gt;" \o rest
             ELSE ch \o rest

\* the page admin_logs builds: the error log, newest first
LogsPage(log) ==
    [ template |-> "logs",
      entries |-> [i \in 1..Len(log) |->
                     [ timestamp |-> Reversed(log)[i].timestamp,
                       message |-> HtmlEscape(Reversed(log)[i].message) ]] ]

\* history: the form carries the configured username and password
ConfiguredCredentials(form) ==
    /\ DOMAIN form = {"username", "password"}
    /\ form.username = ADMIN_USERNAME
    /\ form.password = ADMIN_PASSWORD

\* GET /admin/login
admin_login_get(c) ==
    /\ request' = [route |-> "admin_login", client |-> c, method |-> "GET"]
    /\ response' = PageResponse(200, [template |-> "login", error |-> None])
    /\ UNCHANGED <<recordings_storage, recording_log, error_log, errors, session, now,
                   uploads, logged_in>>
    /\ UNCHANGED env

\* POST /admin/login
admin_login_post(c, form) ==
    LET username == DictGet(form, "username")
        password == DictGet(form, "password")
        verdict == verify_admin_password(username, password)
    IN
    /\ request' = [route |-> "admin_login", client |-> c, method |-> "POST",
                   form |-> form]
    /\ IF verdict = "true"
       THEN /\ session' = [session EXCEPT ![c] =
                    DictPut(DictPut(@, "authenticated", TRUE), "username", username[1])]
            /\ response' = Redirect("/admin")
       ELSE IF verdict = "false"
       THEN /\ response' = PageResponse(200,
                               [template |-> "login", error |-> Some("Invalid credentials")])
            /\ UNCHANGED session
       ELSE /\ response' = UnhandledException
            /\ UNCHANGED session
    /\ logged_in' = [logged_in EXCEPT ![c] = @ \/ ConfiguredCredentials(form)]
    /\ UNCHANGED <<recordings_storage, recording_log, error_log, errors, now, uploads>>
    /\ UNCHANGED env

\* GET /admin/logout
admin_logout(c) ==
    /\ request' = [route |-> "admin_logout", client |-> c]
    /\ session' = [session EXCEPT ![c] = EmptyDict]
    /\ response' = Redirect("/recording")
    /\ logged_in' = [logged_in EXCEPT ![c] = FALSE]
    /\ UNCHANGED <<recordings_storage, recording_log, error_log, errors, now, uploads>>
    /\ UNCHANGED env

\* GET /admin
admin_dashboard(c, is_json) ==
    /\ request' = [route |-> "admin_dashboard", client |-> c, is_json |-> is_json]
    /\ response' = require_auth(session[c], is_json,
                                PageResponse(200, [template |-> "dashboard"]))
    /\ UNCHANGED <<recordings_storage, recording_log, error_log, errors, session, now,
                   uploads, logged_in>>
    /\ UNCHANGED env

\* GET /admin/logs
admin_logs(c, is_json) ==
    /\ request' = [route |-> "admin_logs", client |-> c, is_json |-> is_json]
    /\ response' = require_auth(session[c], is_json,
                                PageResponse(200, LogsPage(error_log)))
    /\ UNCHANGED <<recordings_storage, recording_log, error_log, errors, session, now,
                   uploads, logged_in>>
    /\ UNCHANGED env

(* ------------------------------- clock --------------------------------- *)
\* the wall clock read by time.time() and datetime.now() moves on
Tick(limit) ==
    /\ now < limit
    /\ now' = now + 1
    /\ UNCHANGED <<recordings_storage, recording_log, error_log, errors, session,
                   request, response, uploads, logged_in>>
    /\ UNCHANGED env

(* --------------------------- specifications ---------------------------- *)
\* upload requests whose parsing raises
FaultyUploads == {req \in UploadRequests : req.fault # None}

\* an upload the bounds of the model still admit
UploadAdmitted(req, max_uploads, max_errors) ==
    IF req.fault # None THEN Len(error_log) < max_errors
    ELSE FileTruthy(DictGet(req.files, "recording")) => Len(uploads) < max_uploads

Upload ==
    \E req \in UploadRequests, uuid \in Uuids :
        /\ UploadAdmitted(req, MaxUploads, MaxErrors)
        /\ store_recording(req, uuid)

Watch == \E id \in PathIds : watch_recording(id)
Video == \E id \in PathIds : serve_video(id)
Download == \E id \in PathIds : download_recording(id)
ClockTick == Tick(MaxTime)

\* The recording store and its retrieval routes.
Next ==
    \/ Upload
    \/ Watch
    \/ Video
    \/ Download
    \/ ClockTick

Spec == Init /\ [][Next]_vars

FailedUpload ==
    \E req \in FaultyUploads, uuid \in Uuids :
        /\ UploadAdmitted(req, MaxUploads, MaxAdminErrors)
        /\ store_recording(req, uuid)

LoginGet == \E c \in Clients : admin_login_get(c)
LoginPost == \E c \in Clients, form \in LoginForms : admin_login_post(c, form)
Logout == \E c \in Clients : admin_logout(c)
Dashboard == \E c \in Clients, is_json \in BOOLEAN : admin_dashboard(c, is_json)
Logs == \E c \in Clients, is_json \in BOOLEAN : admin_logs(c, is_json)

\* The operator surface: sessions, the gated pages, and the error log they show.
NextAdmin ==
    \/ LoginGet
    \/ LoginPost
    \/ Logout
    \/ Dashboard
    \/ Logs
    \/ FailedUpload
    \/ ClockTick

SpecAdmin == Init /\ [][NextAdmin]_vars

\* A long sequential run of accepted uploads, one per clock tick, so that
\* every log entry is distinguishable by its timestamp.  The first
\* LogFreeUploads uploads draw any uuid, the later ones all draw the same.
LogRequest ==
    [ fault |-> None,
      files |-> [recording |-> [filename |-> "recording.webm", data |-> <<104, 105>>]],
      form |-> EmptyDict,
      url_root |-> "http://host/" ]

LogUuids == IF Len(uploads) < LogFreeUploads
            THEN Uuids
            ELSE {"3f2a9c1e-7b64-4d0a-9e57-1c2d3e4f5a6b"}

LogUpload ==
    /\ Len(uploads) < MaxLogUploads
    /\ now = Len(uploads)
    /\ \E uuid \in LogUuids : store_recording(LogRequest, uuid)

LogTick ==
    /\ now < Len(uploads)
    /\ Tick(MaxLogUploads)

NextLog ==
    \/ LogUpload
    \/ LogTick

SpecLog == Init /\ [][NextLog]_vars

(* ------------------------------ health --------------------------------- *)
\* `if GOOGLE_CREDENTIALS_JSON`: None and '' are falsy
CredentialConfigured(cfg) ==
    /\ cfg.GOOGLE_CREDENTIALS_JSON # None
    /\ cfg.GOOGLE_CREDENTIALS_JSON[1] # ""

\* GET /health
health ==
    LET drive_status ==
            IF CredentialConfigured(config) /\ config.google_drive_available
            THEN "configured" ELSE "not_configured"
    IN
    /\ request' = [route |-> "health"]
    /\ response' = JsonResponse(200,
                       [ status |-> "healthy",
                         app |-> "blueshiftsupport-screen-capture",
                         version |-> "2.0-googledrive",
                         recording_available |-> TRUE,
                         google_drive |-> drive_status,
                         total_recordings |-> Len(recording_log) ])
    /\ UNCHANGED <<recordings_storage, recording_log, error_log, errors, session,
                   now, uploads, logged_in>>
    /\ UNCHANGED env

(* --------------------------- cloud relay ------------------------------- *)
\* json.loads(text): the parsed document, or None when it raises
JsonLoads(text) ==
    IF Len(text) > 0 /\ SubSeq(text, 1, 1) = "{" THEN Some(text) ELSE None

\* What the Drive API does with one call of upload_to_google_drive:
\*   ok                  files().create and permissions().create succeed
\*   create_raises       files().create(...).execute() raises
\*   permissions_raises  the file is created, permissions().create raises
\*   no_id_raises        the created file has no 'id'; permissions().create
\*                       refuses fileId=None
\*   no_id_link          the created file has no 'id'; permissions().create
\*                       accepts it
DriveOutcomes ==
    {"ok", "create_raises", "permissions_raises", "no_id_raises", "no_id_link"}

\* f"https://drive.google.com/file/d/{file_id}/view?usp=sharing"
ShareableLink(file_id) ==
    "https://drive.google.com/file/d/" \o file_id \o "/view?usp=sharing"

\* the exception text raised inside the try block, None when nothing is raised
RelayException(cfg, outcome) ==
    IF JsonLoads(cfg.GOOGLE_CREDENTIALS_JSON[1]) = None
    THEN Some("Expecting value: line 1 column 1 (char 0)")
    ELSE IF ~cfg.google_drive_available
    THEN Some("name 'service_account' is not defined")
    ELSE IF outcome = "create_raises" THEN Some("HttpError 403")
    ELSE IF outcome = "permissions_raises" THEN Some("HttpError 404")
    ELSE IF outcome = "no_id_raises" THEN Some("Missing required parameter \"fileId\"")
    ELSE None

\* the Drive folder after the call: files().create ran unless something
\* raised before it
DriveAfter(files, cfg, file_data, filename, outcome) ==
    IF \/ JsonLoads(cfg.GOOGLE_CREDENTIALS_JSON[1]) = None
       \/ ~cfg.google_drive_available
       \/ outcome = "create_raises"
    THEN files
    ELSE Append(files,
                [ name |-> filename,
                  data |-> file_data,
                  id |-> IF outcome \in {"no_id_raises", "no_id_link"}
                         THEN "None"
                         ELSE "drive-file-" \o ToString(Len(files) + 1),
                  anyone_reader |-> outcome \in {"ok", "no_id_link"} ])

\* how a call of a Python function ends: with a returned pair, or an exception
Returned(link, error) == [ended |-> "return", link |-> link, error |-> error]
Raised(exception) == [ended |-> "raise", exception |-> exception]

\* upload_to_google_drive(file_data, filename), the Drive API behaving as `outcome`
upload_to_google_drive(file_data, filename, outcome) ==
    /\ request' = [route |-> "upload_to_google_drive", file_data |-> file_data,
                   filename |-> filename, outcome |-> outcome]
    /\ IF ~CredentialConfigured(config)
       THEN LET error_msg == "Google Drive credentials not configured" IN
            /\ error_log' = log_error(error_log, error_msg, now)
            /\ errors' = LogHistory(errors, error_msg, now)
            /\ response' = Returned(None, Some(error_msg))
            /\ UNCHANGED drive_files
       ELSE LET exception == RelayException(config, outcome) IN
            /\ drive_files' = DriveAfter(drive_files, config, file_data, filename, outcome)
            /\ IF exception = None
               THEN /\ response' = Returned(Some(ShareableLink(Last(drive_files').id)), None)
                    /\ UNCHANGED <<error_log, errors>>
               ELSE \* except Exception as e: one log_error, then
                    \* traceback.format_exc() is evaluated before the
                    \* function-local `import traceback` has bound the name
                    LET error_msg == "Google Drive upload error: " \o exception[1] IN
                    /\ error_log' = log_error(error_log, error_msg, now)
                    /\ errors' = LogHistory(errors, error_msg, now)
                    /\ response' = Raised("UnboundLocalError")
    /\ UNCHANGED <<recordings_storage, recording_log, session, now, uploads,
                   logged_in, config, workers, page>>

\* Any deployment of the server: uploads and health checks.
CloudUpload ==
    \E req \in UploadRequests, uuid \in Uuids :
        /\ UploadAdmitted(req, MaxUploads, MaxErrors)
        /\ store_recording(req, uuid)

Health == health

NextCloud ==
    \/ CloudUpload
    \/ Health

SpecCloud == InitDeployed /\ [][NextCloud]_vars

\* The relay function applied on its own, in any deployment.
RelayCall ==
    \E file_data \in Datas, outcome \in DriveOutcomes :
        /\ Len(errors) < MaxRelayErrors
        /\ Len(drive_files) < MaxDriveFiles
        /\ upload_to_google_drive(file_data, Filename(now, "3f2a9c1e"), outcome)

NextRelay ==
    \/ RelayCall
    \/ ClockTick

SpecRelay == InitDeployed /\ [][NextRelay]_vars

(* ------------------- failures caught by the handlers ------------------- *)
\* exceptions the try body of a retrieval handler can raise while it builds
\* its response
HandlerFaults == {"MemoryError", "TemplateRuntimeError"}

\* `except Exception as e` of watch_recording, serve_video and
\* download_recording: the failure is printed and answered with 500
HandlerExcept(route, recording_id, fault) ==
    /\ request' = [route |-> route, recording_id |-> recording_id, fault |-> Some(fault)]
    /\ response' = TextResponse(500, "Internal Server Error")
    /\ UNCHANGED <<recordings_storage, recording_log, error_log, errors, session, now,
                   uploads, logged_in>>
    /\ UNCHANGED env

WatchFails ==
    \E id \in PathIds, fault \in HandlerFaults : HandlerExcept("watch_recording", id, fault)
VideoFails ==
    \E id \in PathIds, fault \in HandlerFaults : HandlerExcept("serve_video", id, fault)
DownloadFails ==
    \E id \in PathIds, fault \in HandlerFaults :
        HandlerExcept("download_recording", id, fault)

\* Requests whose handling raises inside a handler.
NextFault ==
    \/ FailedUpload
    \/ WatchFails
    \/ VideoFails
    \/ DownloadFails
    \/ ClockTick

SpecFault == Init /\ [][NextFault]_vars

(* ------------------------- a long run of errors ------------------------ *)
\* A sequential run of log_error calls, one per clock tick, so that every
\* entry is distinguishable by its timestamp.  Each call comes from a failed
\* upload or, among the first ErrFreeCalls, from the relay finding no
\* credential.
ErrUpload ==
    /\ Len(errors) < MaxErrLogged
    /\ now = Len(errors)
    /\ \E req \in FaultyUploads, uuid \in {"3f2a9c1e-7b64-4d0a-9e57-1c2d3e4f5a6b"} :
           store_recording(req, uuid)

ErrRelay ==
    /\ Len(errors) < ErrFreeCalls
    /\ now = Len(errors)
    /\ upload_to_google_drive(<< >>, Filename(now, "3f2a9c1e"), "ok")

ErrTick ==
    /\ now < Len(errors)
    /\ Tick(MaxErrLogged)

NextErrLog ==
    \/ ErrUpload
    \/ ErrRelay
    \/ ErrTick

SpecErrLog == Init /\ [][NextErrLog]_vars

(* ----------------------- concurrent uploads ---------------------------- *)
\* The server handles each request on its own thread.  A thread serving an
\* accepted upload runs the statements of store_recording that touch the
\* shared store and log one at a time; another thread can run between any
\* two of them.

\* the statement a thread runs first with an append placed before the insert
StepAfterAppendFirst(pc, log_over_cap) ==
    CASE pc = "begin" -> "append"
      [] pc = "append" -> "insert"
      [] pc = "insert" -> "test"
      [] pc = "test" -> IF log_over_cap THEN "pop" ELSE "respond"
      [] pc = "pop" -> "respond"
      [] pc = "respond" -> "idle"

\* the statement of store_recording a thread runs after statement pc
StepAfter(pc, log_over_cap) ==
    CASE pc = "begin" -> "insert"
      [] pc = "insert" -> "append"
      [] pc = "append" -> "test"
      [] pc = "test" -> IF log_over_cap THEN "pop" ELSE "respond"
      [] pc = "pop" -> "respond"
      [] pc = "respond" -> "idle"

Advance(w, log_over_cap) ==
    workers' = [workers EXCEPT ![w].pc = StepAfter(workers[w].pc, log_over_cap)]

\* the request is parsed and the thread's locals are computed
BeginUpload(w, req, uuid) ==
    LET recording_file == DictGet(req.files, "recording")
        unique_id == UniqueId(uuid)
    IN
    /\ workers[w].pc = "idle"
    /\ req.fault = None
    /\ FileTruthy(recording_file)
    /\ workers' = [workers EXCEPT ![w] =
           [ pc |-> StepAfter("begin", FALSE),
             req |-> req,
             timestamp |-> now,
             unique_id |-> unique_id,
             filename |-> Filename(now, unique_id),
             file_data |-> recording_file[1].data,
             duration |-> DictGetDefault(req.form, "duration", "00:00") ]]
    /\ UNCHANGED <<recordings_storage, recording_log, error_log, errors, session, now,
                   request, response, uploads, logged_in, config, drive_files,
                   page>>

\* recordings_storage[unique_id] = {...}
InsertStep(w) ==
    LET my == workers[w] IN
    /\ my.pc = "insert"
    /\ recordings_storage' =
           StoreInsert(recordings_storage, my.unique_id,
                       NewRecording(my.filename, my.file_data, my.duration, now))
    /\ Advance(w, FALSE)
    /\ UNCHANGED <<recording_log, error_log, errors, session, now, request, response,
                   uploads, logged_in, config, drive_files,
                   page>>

\* recording_log.append(log_entry)
AppendStep(w) ==
    LET my == workers[w]
        entry == NewLogEntry(my.unique_id, my.filename, my.file_data, my.duration, now)
    IN
    /\ my.pc = "append"
    /\ recording_log' = Append(recording_log, entry)
    /\ uploads' = Append(uploads,
                         [id |-> my.unique_id, data |-> my.file_data, entry |-> entry])
    /\ Advance(w, FALSE)
    /\ UNCHANGED <<recordings_storage, error_log, errors, session, now, request,
                   response, logged_in, config, drive_files,
                   page>>

\* if len(recording_log) > 100:
TestStep(w) ==
    /\ workers[w].pc = "test"
    /\ Advance(w, Len(recording_log) > RecordingLogCap)
    /\ UNCHANGED <<recordings_storage, recording_log, error_log, errors, session, now,
                   request, response, uploads, logged_in, config, drive_files,
                   page>>

\* recording_log.pop(0)
PopStep(w) ==
    /\ workers[w].pc = "pop"
    /\ recording_log # << >>
    /\ recording_log' = Tail(recording_log)
    /\ Advance(w, FALSE)
    /\ UNCHANGED <<recordings_storage, error_log, errors, session, now, request,
                   response, uploads, logged_in, config, drive_files,
                   page>>

\* return jsonify({...})
RespondStep(w) ==
    LET my == workers[w] IN
    /\ my.pc = "respond"
    /\ request' = [route |-> "store_recording", req |-> my.req]
    /\ response' =
           JsonResponse(200,
               [ success |-> TRUE,
                 recording_url |-> RecordingUrl(my.req.url_root, my.unique_id),
                 recording_id |-> my.unique_id,
                 message |-> "Recording stored successfully" ])
    /\ workers' = [workers EXCEPT ![w] = IdleWorker]
    /\ UNCHANGED <<recordings_storage, recording_log, error_log, errors, session, now,
                   uploads, logged_in, config, drive_files,
                   page>>

\* uploads begun so far: those appended and those about to be
Begun ==
    Len(uploads) + Cardinality({w \in Workers : workers[w].pc \in {"insert", "append"}})

\* The last ConcFreeUploads uploads draw any uuid, the earlier ones all draw
\* the same.
ConcUuids == IF Begun >= MaxConcUploads - ConcFreeUploads
             THEN Uuids
             ELSE {"3f2a9c1e-7b64-4d0a-9e57-1c2d3e4f5a6b"}

ConcBegin ==
    \E w \in Workers, uuid \in ConcUuids :
        /\ Begun < MaxConcUploads
        /\ BeginUpload(w, LogRequest, uuid)

ConcInsert == \E w \in Workers : InsertStep(w)
ConcAppend == \E w \in Workers : AppendStep(w)
ConcTest == \E w \in Workers : TestStep(w)
ConcPop == \E w \in Workers : PopStep(w)
ConcRespond == \E w \in Workers : RespondStep(w)

\* Uploads handled by two threads at once.
NextConc ==
    \/ ConcBegin
    \/ ConcInsert
    \/ ConcAppend
    \/ ConcTest
    \/ ConcPop
    \/ ConcRespond

SpecConc == Init /\ [][NextConc]_vars

(* --------------------------- the capture page -------------------------- *)
\* The script of the capture page.  page.mediaRecorder and page.stream are
\* the script's globals (0 when unset, otherwise the number of the recording
\* they belong to); page.status is the message shown last; page.recorders holds, for every recording started, its
\* MediaRecorder and stream; page.pending counts the startRecording calls
\* waiting in getDisplayMedia; page.clock is the browser's time in minutes.
server == <<recordings_storage, recording_log, error_log, session, now, request,
            response, uploads, logged_in, config, drive_files, workers, errors>>

\* the recorder and stream of a recording started at minute t
NewRecorder(t) ==
    [ state |-> "recording",
      started_at |-> t,
      video_live |-> TRUE,
      timer_pending |-> TRUE,
      stop_queued |-> 0,
      uploads |-> 0,
      stopped_by |-> "none" ]

\* MediaRecorder.stop() of recorder r, also run by the browser when every
\* track of its stream has ended: the state becomes inactive and a stop
\* event is queued
StopRecorder(recorders, r, cause) ==
    [recorders EXCEPT ![r].state = "inactive",
                      ![r].stop_queued = @ + 1,
                      ![r].stopped_by = cause]

\* stopRecording without the test of the recorder's state
stopRecordingUnguarded(p, cause) ==
    IF p.mediaRecorder # 0
    THEN [p EXCEPT !.recorders =
                       [StopRecorder(@, p.mediaRecorder, cause)
                            EXCEPT ![p.stream].video_live = FALSE],
                   !.recordBtn_disabled = FALSE,
                   !.stopBtn_disabled = TRUE]
    ELSE p

\* stopRecording(): the page after the call
stopRecording(p, cause) ==
    IF p.mediaRecorder # 0 /\ p.recorders[p.mediaRecorder].state = "recording"
    THEN [p EXCEPT !.recorders =
                       [StopRecorder(@, p.mediaRecorder, cause)
                            EXCEPT ![p.stream].video_live = FALSE],
                   !.recordBtn_disabled = FALSE,
                   !.stopBtn_disabled = TRUE]
    ELSE p

\* the browser stops recorder r by itself once all tracks of its stream ended
BrowserStops(p, r) ==
    IF p.recorders[r].state = "recording"
    THEN [p EXCEPT !.recorders = StopRecorder(@, r, "browser")]
    ELSE p

\* click on recordBtn: startRecording runs up to `await getDisplayMedia`
ClickRecord ==
    /\ ~page.recordBtn_disabled
    /\ page.pending + Len(page.recorders) < MaxRecordings
    /\ page.clock <= MaxStartMinute
    /\ page' = [page EXCEPT !.pending = @ + 1]
    /\ UNCHANGED server

\* getDisplayMedia rejects: the catch block of startRecording
PermissionDenied ==
    /\ page.pending > 0
    /\ page' = [page EXCEPT !.pending = @ - 1,
                            !.status = "Unable to start recording."]
    /\ UNCHANGED server

\* getDisplayMedia resolves: the rest of startRecording
PermissionGranted ==
    LET r == Len(page.recorders) + 1 IN
    /\ page.pending > 0
    /\ page.clock <= MaxStartMinute
    /\ page' = [page EXCEPT !.pending = @ - 1,
                            !.stream = r,
                            !.mediaRecorder = r,
                            !.recorders = Append(@, NewRecorder(page.clock)),
                            !.recordBtn_disabled = TRUE,
                            !.stopBtn_disabled = FALSE,
                            !.status = "Recording started!"]
    /\ UNCHANGED server

\* click on stopBtn
ClickStop ==
    /\ ~page.stopBtn_disabled
    /\ page' = stopRecording(page, "button")
    /\ UNCHANGED server

\* the user ends the sharing of recording r from the browser: the video
\* track's `ended` listener calls stopRecording(); when no other track of the
\* stream is live the browser also stops recorder r, before or after the
\* listener runs
TrackEnded ==
    \E r \in 1..Len(page.recorders), all_ended \in BOOLEAN, browser_first \in BOOLEAN :
        LET ended == [page EXCEPT !.recorders[r].video_live = FALSE] IN
        /\ page.recorders[r].video_live
        /\ page' =
             IF ~all_ended THEN stopRecording(ended, "track")
             ELSE IF browser_first
             THEN stopRecording(BrowserStops(ended, r), "track")
             ELSE BrowserStops(stopRecording(ended, "track"), r)
        /\ UNCHANGED server

\* the callback of setTimeout(..., 900000) set when recording r started
TimerFires ==
    \E r \in 1..Len(page.recorders) :
        LET fired == [page EXCEPT !.recorders[r].timer_pending = FALSE] IN
        /\ page.recorders[r].timer_pending
        /\ page.clock >= page.recorders[r].started_at + AutoStopMinutes
        /\ page' =
             IF /\ fired.mediaRecorder # 0
                /\ fired.recorders[fired.mediaRecorder].state = "recording"
             THEN [stopRecording(fired, "timer") EXCEPT
                       !.status = "Recording automatically stopped after 15 minutes."]
             ELSE fired
        /\ UNCHANGED server

\* a queued stop event of recorder r is dispatched: onstop builds the blob
\* and storeRecording posts it to /api/store-recording; the share section is
\* shown when the server answers with a recording_url
DispatchStop ==
    \E r \in 1..Len(page.recorders), ok \in BOOLEAN :
        /\ page.recorders[r].stop_queued > 0
        /\ page' = [page EXCEPT !.recorders[r].stop_queued = @ - 1,
                                !.recorders[r].uploads = @ + 1,
                                !.share_active = @ \/ ok,
                                !.status = IF ok THEN "Recording saved!"
                                           ELSE "Recording storage failed."]
        /\ UNCHANGED server

\* click on "Record Another Video" in the share section: resetRecording()
ResetRecording ==
    /\ page.share_active
    /\ page' = [page EXCEPT !.share_active = FALSE,
                            !.recordBtn_disabled = FALSE,
                            !.stopBtn_disabled = TRUE,
                            !.status = "Ready to record again!"]
    /\ UNCHANGED server

\* a minute passes; queued events are dispatched first
MinutePasses ==
    /\ page.clock < MaxMinutes
    /\ \A r \in 1..Len(page.recorders) : page.recorders[r].stop_queued = 0
    /\ page' = [page EXCEPT !.clock = @ + 1]
    /\ UNCHANGED server

\* One visitor on the capture page.
NextPage ==
    \/ ClickRecord
    \/ PermissionDenied
    \/ PermissionGranted
    \/ ClickStop
    \/ TrackEnded
    \/ TimerFires
    \/ DispatchStop
    \/ ResetRecording
    \/ MinutePasses

SpecPage == Init /\ [][NextPage]_vars

(* ============================ properties =============================== *)
GetRoutes == {"watch_recording", "serve_video", "download_recording"}

\* the step is an accepted upload: the handler ran its insert branch
AcceptedUploadStep ==
    /\ request'.route = "store_recording"
    /\ uploads' # uploads

\* C1: round trip. When GET /api/video/{i} is served next after the accepted
\* upload of bytes x that returned recording_id i (no other upload in between),
\* the answer is 200 and its body is exactly x, whatever x's content or length.
C1_RoundTrip ==
    ( /\ request.route = "serve_video"
      /\ uploads # << >>
      /\ request.recording_id = Last(uploads).id )
    => ( /\ response.status = 200
         /\ response.body = Last(uploads).data )

\* the video route has answered for the id of the latest upload, non-empty bytes
C1_Witness ==
    /\ request.route = "serve_video"
    /\ uploads # << >>
    /\ request.recording_id = Last(uploads).id
    /\ Len(Last(uploads).data) > 0
    /\ response.status = 200
    /\ response.body = Last(uploads).data

\* C2: once an id maps to a record, the bytes stored (and so returned) for
\* that id never change, whatever uploads and retrievals follow.
C2_BytesNeverChange ==
    [][ \A id \in DOMAIN recordings_storage :
            /\ id \in DOMAIN recordings_storage'
            /\ recordings_storage'[id].data = recordings_storage[id].data ]_vars

\* C3: every accepted upload answers 200 with a recording_id and a
\* recording_url ending in watch/{recording_id}; after the step the store holds
\* the uploaded bytes under exactly that id, and the upload log is the old log
\* with exactly one entry, carrying that id, appended (trimmed to its cap).
C3_AcceptedUpload ==
    [][ AcceptedUploadStep =>
          LET id == response'.body.recording_id
              kept == Min(Len(recording_log), RecordingLogCap - 1)
          IN  /\ response'.status = 200
              /\ Len(id) = IdLen
              /\ EndsWith(response'.body.recording_url, "watch/" \o id)
              /\ id \in DOMAIN recordings_storage'
              /\ recordings_storage'[id].data = Last(uploads').data
              /\ DOMAIN recordings_storage' = DOMAIN recordings_storage \cup {id}
              /\ Len(recording_log') = kept + 1
              /\ Last(recording_log').id = id
              /\ SubSeq(recording_log', 1, kept) = LastN(recording_log, kept) ]_vars

\* an accepted upload has just been answered and there was an earlier one
C3_Witness ==
    /\ request.route = "store_recording"
    /\ response.status = 200
    /\ Len(uploads) = 2
    /\ Len(recording_log) = 2
    /\ Last(recording_log).id = response.body.recording_id
    /\ response.body.recording_id \in DOMAIN recordings_storage

StartsWith(s, t) == Len(t) <= Len(s) /\ SubSeq(s, 1, Len(t)) = t

\* the upload request on display was parsed (its body raised nothing)
ParsedUpload == request.route = "store_recording" /\ request.req.fault = None

\* C4 as stated: a parsed upload is rejected with 400 exactly when it carries
\* no `recording` file part, and every request carrying one is accepted.
C4_RejectedOnlyWithoutPart ==
    ParsedUpload =>
        /\ response.status = 400 <=> "recording" \notin DOMAIN request.req.files
        /\ "recording" \in DOMAIN request.req.files => response.status = 200

\* C4, amended: a parsed upload is rejected with 400 and the error message
\* exactly when it carries no `recording` file part or the part's filename is
\* empty; a part with a filename is accepted even with zero bytes; and a
\* rejected upload leaves the store, the upload log and the error log unchanged.
C4_RejectedIffNoNamedFile ==
    /\ [] ( ParsedUpload =>
              LET files == request.req.files
                  named == "recording" \in DOMAIN files /\ files.recording.filename # ""
              IN  /\ ~named => ( /\ response.status = 400
                                 /\ response.body = [error |-> "No recording file provided"] )
                  /\ named => response.status = 200 )
    /\ [][ ( /\ request'.route = "store_recording"
             /\ response'.status = 400
             /\ <<request, response>>' # <<request, response>> )
           => UNCHANGED <<recordings_storage, recording_log, error_log, errors, uploads>> ]_vars

\* a part with an empty filename has been rejected while the store and the
\* error log hold something that could have changed
C4_Witness ==
    /\ ParsedUpload
    /\ "recording" \in DOMAIN request.req.files
    /\ request.req.files.recording.filename = ""
    /\ response.status = 400
    /\ recordings_storage # EmptyDict
    /\ error_log # << >>

\* C5: for an id that is no key of the store, /watch answers 404 with the
\* not-found page and /api/video and /api/download answer 404 with a bare
\* message, never 500; and serving the miss leaves the store and both logs
\* unchanged.
C5_UnknownIdIs404 ==
    /\ [] ( ( /\ request.route \in GetRoutes
              /\ request.recording_id \notin DOMAIN recordings_storage )
            => /\ response.status = 404
               /\ IF request.route = "watch_recording"
                  THEN response.body = [template |-> "Recording Not Found"]
                  ELSE response.body = [text |-> "Recording not found"] )
    /\ [][ ( /\ request'.route \in GetRoutes
             /\ request'.recording_id \notin DOMAIN recordings_storage
             /\ <<request, response>>' # <<request, response>> )
           => UNCHANGED <<recordings_storage, recording_log, error_log, errors>> ]_vars

\* /api/video has answered for an id that was never issued, with records stored
C5_Witness ==
    /\ request.route = "serve_video"
    /\ request.recording_id = "doesnotexist"
    /\ response.status = 404
    /\ recordings_storage # EmptyDict
    /\ error_log # << >>

\* C6: for an id in the store, the video and download routes return the same
\* bytes (the record's data); the video answer carries the record's content
\* type and an inline Content-Disposition, the download answer an attachment
\* Content-Disposition naming the record's filename; both carry Content-Length.
C6_VideoAndDownload ==
    ( /\ request.route \in {"serve_video", "download_recording"}
      /\ request.recording_id \in DOMAIN recordings_storage )
    => LET id == request.recording_id
           recording == recordings_storage[id]
           other == IF request.route = "serve_video"
                    THEN DownloadResponse(recordings_storage, id)
                    ELSE VideoResponse(recordings_storage, id)
       IN  /\ response.status = 200
           /\ response.body = recording.data
           /\ other.status = 200
           /\ response.body = other.body
           /\ "ContentLength" \in DOMAIN response.headers
           /\ "ContentLength" \in DOMAIN other.headers
           /\ IF request.route = "serve_video"
              THEN /\ response.mimetype = recording.content_type
                   /\ StartsWith(response.headers.ContentDisposition, "inline")
                   /\ other.headers.ContentDisposition =
                          "attachment; filename=\"" \o recording.filename \o "\""
              ELSE /\ response.headers.ContentDisposition =
                          "attachment; filename=\"" \o recording.filename \o "\""
                   /\ other.mimetype = recording.content_type
                   /\ StartsWith(other.headers.ContentDisposition, "inline")

\* the download route has answered with the non-empty bytes of a stored record
C6_Witness ==
    /\ request.route = "download_recording"
    /\ request.recording_id \in DOMAIN recordings_storage
    /\ response.status = 200
    /\ Len(response.body) > 0
    /\ response.body = VideoResponse(recordings_storage, request.recording_id).body

\* the bytes of the latest accepted upload that was issued `id`
UploadedUnder(id) ==
    uploads[CHOOSE i \in 1..Len(uploads) :
                /\ uploads[i].id = id
                /\ \A j \in (i + 1)..Len(uploads) : uploads[j].id # id].data

\* C7: every record in the store has size_bytes equal to the length of its
\* data, so the Content-Length sent by /api/video and /api/download equals the
\* number of bytes uploaded under that id.
C7_SizeIsLength ==
    \A id \in DOMAIN recordings_storage :
        LET recording == recordings_storage[id]
            n == ToString(Len(UploadedUnder(id)))
        IN  /\ recording.size_bytes = Len(recording.data)
            /\ VideoResponse(recordings_storage, id).headers.ContentLength = n
            /\ DownloadResponse(recordings_storage, id).headers.ContentLength = n

\* two records of different sizes are stored
C7_Witness ==
    \E a, b \in DOMAIN recordings_storage :
        /\ recordings_storage[a].size_bytes = 0
        /\ recordings_storage[b].size_bytes = 2
        /\ VideoResponse(recordings_storage, b).headers.ContentLength = "2"

\* the log entries of all accepted uploads, in the order they were accepted
AcceptedEntries == [i \in 1..Len(uploads) |-> uploads[i].entry]

\* C8: after n sequentially handled accepted uploads the upload log holds at
\* most 100 entries, exactly the most recent min(n, 100) in insertion order;
\* after 150 uploads the oldest 50 are absent and the newest 100 remain in order.
C8_LogKeepsNewest100 ==
    /\ Len(recording_log) = Min(Len(uploads), 100)
    /\ recording_log = LastN(AcceptedEntries, 100)
    /\ Len(uploads) = 150 =>
          /\ recording_log = SubSeq(AcceptedEntries, 51, 150)
          /\ \A i \in 1..50 : \A j \in 1..Len(recording_log) :
                 recording_log[j] # AcceptedEntries[i]

\* 150 uploads have been accepted
C8_Witness ==
    /\ Len(uploads) = 150
    /\ Len(recording_log) = 100
    /\ recording_log[1] = AcceptedEntries[51]

AdminRoutes == {"admin_dashboard", "admin_logs"}

\* C9: /admin and /admin/logs serve their page only to a session that has
\* posted a login with the configured username and password and has not logged
\* out since; any other session gets a 401 JSON error when the request is a
\* JSON request and a redirect to the login page otherwise, with no admin content.
C9_AdminGated ==
    request.route \in AdminRoutes =>
        IF logged_in[request.client]
        THEN /\ response.status = 200
             /\ response.body.template =
                    (IF request.route = "admin_dashboard" THEN "dashboard" ELSE "logs")
        ELSE IF request.is_json
        THEN /\ response.status = 401
             /\ response.mimetype = "application/json"
             /\ response.body = [error |-> "Authentication required"]
        ELSE /\ response.status = 302
             /\ response.headers = [Location |-> "/admin/login"]
             /\ response.body = [text |-> ""]

\* one browser is shown the error log while the other, never logged in, is not
C9_Witness ==
    /\ request.route = "admin_logs"
    /\ logged_in[request.client]
    /\ response.status = 200
    /\ Len(response.body.entries) > 0
    /\ \E c \in Clients : ~logged_in[c] /\ ~Authenticated(session[c])

\* C10: no step removes a key from the recording store, also when the upload
\* log evicts the entry of that key.
C10_StoreOnlyGrows ==
    [][ DOMAIN recordings_storage \subseteq DOMAIN recordings_storage' ]_vars

\* the log has evicted every entry of an id that the store still holds
C10_Witness ==
    /\ Len(uploads) > 100
    /\ \E id \in DOMAIN recordings_storage :
           \A j \in 1..Len(recording_log) : recording_log[j].id # id

\* the upload on display carried a named file and nothing raised while parsing
NamedFileUpload ==
    /\ ParsedUpload
    /\ FileTruthy(DictGet(request.req.files, "recording"))

\* C11: when a cloud credential is configured an upload goes to the cloud
\* relay and is not inserted into the local store; the local store is written
\* only when no credential is configured.
C11_CloudInsteadOfLocal ==
    CredentialConfigured(config) =>
        /\ recordings_storage = EmptyDict
        /\ Len(drive_files) = Len(uploads)

\* the relay cannot succeed in this deployment: the credential does not parse
\* or the client libraries are missing
RelayMustFail(cfg) ==
    /\ CredentialConfigured(cfg)
    /\ RelayException(cfg, "ok") # None

\* C12: when the relay call fails during an upload, the upload response has
\* status 500 and carries an error message together with a `fallback` hint.
C12_RelayFailureIs500 ==
    (NamedFileUpload /\ RelayMustFail(config)) =>
        /\ response.status = 500
        /\ "error" \in DOMAIN response.body
        /\ "fallback" \in DOMAIN response.body

\* C13: for every outcome of the relay, upload_to_google_drive returns either
\* (link, no error) or (no link, error text) and lets no exception escape; on
\* every failure the error text is also recorded in the error log.
C13_RelayAlwaysReturns ==
    request.route = "upload_to_google_drive" =>
        /\ response.ended = "return"
        /\ \/ response.link # None /\ response.error = None
           \/ /\ response.link = None
              /\ response.error # None
              /\ error_log # << >>
              /\ Last(error_log).message = response.error[1]

\* the request a handler caught an exception for
CaughtFailure(r) ==
    IF r.route = "store_recording" THEN r.req.fault # None
    ELSE r.route \in GetRoutes /\ "fault" \in DOMAIN r

\* C14: every failure caught by store_recording, watch_recording, serve_video
\* or download_recording appends one entry stamped with the current time to
\* the error log and is answered with an HTTP error response.
C14_CaughtFailuresLogged ==
    [][ (CaughtFailure(request') /\ now' = now) =>
            /\ response'.status >= 500
            /\ Len(errors') = Len(errors) + 1
            /\ Last(errors').timestamp = now
            /\ error_log' # << >> /\ Last(error_log') = Last(errors') ]_vars

\* C15: after any sequence of log_error calls the error log holds at most 50
\* entries, and they are the most recent min(n, 50) of the n messages logged,
\* in the order they were logged.
C15_ErrorLogKeepsNewest50 ==
    /\ Len(error_log) = Min(Len(errors), ErrorLogCap)
    /\ error_log = LastN(errors, ErrorLogCap)

\* more than 50 errors have been logged, the oldest of them by the relay
C15_Witness ==
    /\ Len(errors) > ErrorLogCap + 1
    /\ errors[1].message = "Google Drive credentials not configured"
    /\ error_log[1] = errors[Len(errors) - ErrorLogCap + 1]

\* the step is an accepted upload under an id that is already a key
CollidingUploadStep ==
    /\ AcceptedUploadStep
    /\ Last(uploads').id \in DOMAIN recordings_storage

\* C16: an upload issued an id that already is a key of the store replaces
\* the prior record with the new one, leaves the number of stored records and
\* every other record unchanged, reports no error, and still adds its entry
\* to the upload log; the id's video and download URLs then serve the newer
\* bytes.
C16_CollisionOverwrites ==
    [][ CollidingUploadStep =>
          LET upload == Last(uploads')
              id == upload.id
          IN  /\ recordings_storage'[id].data = upload.data
              /\ recordings_storage'[id].filename = upload.entry.filename
              /\ Cardinality(DOMAIN recordings_storage')
                     = Cardinality(DOMAIN recordings_storage)
              /\ \A k \in DOMAIN recordings_storage \ {id} :
                     recordings_storage'[k] = recordings_storage[k]
              /\ response'.status = 200
              /\ response'.body.recording_id = id
              /\ error_log' = error_log
              /\ Len(recording_log') = Min(Len(recording_log) + 1, RecordingLogCap)
              /\ Last(recording_log') = upload.entry
              /\ VideoResponse(recordings_storage', id).body = upload.data
              /\ DownloadResponse(recordings_storage', id).body = upload.data ]_vars

\* two uploads of different bytes were issued the same id; one record is
\* stored and it holds the later bytes
C16_Witness ==
    /\ Len(uploads) = 2
    /\ uploads[1].id = uploads[2].id
    /\ uploads[1].data # uploads[2].data
    /\ request.route = "store_recording"
    /\ response.status = 200
    /\ Cardinality(DOMAIN recordings_storage) = 1
    /\ recordings_storage[uploads[2].id].data = uploads[2].data
    /\ Len(recording_log) = 2

\* C17: every key of the store is 8 characters long, and the record stored
\* under key k has the filename "blueshift-recording-<timestamp>-<k>.webm"
\* for a timestamp no later than now.
C17_KeysAndFilenames ==
    \A k \in DOMAIN recordings_storage :
        /\ Len(k) = IdLen
        /\ \E t \in 0..now :
               recordings_storage[k].filename
                   = "blueshift-recording-" \o ToString(t) \o "-" \o k \o ".webm"

\* records are stored under two ids, uploaded at different times
C17_Witness ==
    /\ Cardinality(DOMAIN recordings_storage) = 2
    /\ \E j, k \in DOMAIN recordings_storage :
           /\ j # k
           /\ recordings_storage[j].filename = "blueshift-recording-0-" \o j \o ".webm"
           /\ recordings_storage[k].filename = "blueshift-recording-1-" \o k \o ".webm"

\* C18: the total_recordings value reported by GET /health equals the number
\* of recordings held in the store.
C18_HealthCountsStore ==
    request.route = "health" =>
        response.body.total_recordings = Cardinality(DOMAIN recordings_storage)

\* no thread is inside store_recording
AllFinished == \A w \in Workers : workers[w].pc = "idle"

\* C19: under any interleaving of concurrently handled uploads, once all
\* uploads have finished the upload log holds exactly min(100, entries ever
\* appended) entries, the most recently appended ones in order; and no entry
\* is removed from the log while it holds 100 or fewer.
C19_LogAfterConcurrentUploads ==
    /\ [](AllFinished =>
            /\ Len(recording_log) = Min(RecordingLogCap, Len(uploads))
            /\ recording_log = LastN(AcceptedEntries, RecordingLogCap))
    /\ [][Len(recording_log') < Len(recording_log) => Len(recording_log) > RecordingLogCap]_vars

\* C20: in every reachable state, the states between the statements of
\* concurrently handled uploads included, every id in the upload log is a
\* key of the recording store.
C20_LoggedIdsAreStored ==
    \A j \in 1..Len(recording_log) : recording_log[j].id \in DOMAIN recordings_storage

\* one thread has appended its entry and not yet answered while the other
\* has inserted its record under another id and not yet appended
C20_Witness ==
    \E v, w \in Workers :
        /\ workers[v].pc = "test"
        /\ workers[w].pc = "append"
        /\ workers[v].unique_id # workers[w].unique_id
        /\ recording_log # << >>
        /\ Last(recording_log).id = workers[v].unique_id
        /\ workers[w].unique_id \in DOMAIN recordings_storage

\* the request served last is a POST to /admin/login
LoginPosted(r) == r.route = "admin_login" /\ r.method = "POST"

\* the login page rendered with error="Invalid credentials"
InvalidCredentialsPage ==
    PageResponse(200, [template |-> "login", error |-> Some("Invalid credentials")])

SessionKeys == {"authenticated", "username"}

\* C21: a POST to /admin/login with credentials that do not verify leaves
\* every session as it was, authenticated or not, and is answered with the
\* login page showing an error.
C21_FailedLoginKeepsSession ==
    [][ (LoginPosted(request') /\ ~ConfiguredCredentials(request'.form)) =>
          /\ \A c \in Clients, k \in SessionKeys :
                 DictGet(session'[c], k) = DictGet(session[c], k)
          /\ response'.status = 200
          /\ response' = InvalidCredentialsPage ]_vars

\* C22: every POST to /admin/login, whichever fields its form omits, ends
\* either in a redirect to the dashboard with the session authenticated or in
\* the login page with an invalid-credentials error, never in an unhandled
\* exception or a server error.
C22_LoginNever500 ==
    LoginPosted(request) =>
        /\ response.status < 500
        /\ \/ /\ response.status = 302
              /\ response.headers = [Location |-> "/admin"]
              /\ Authenticated(session[request.client])
           \/ /\ response.status = 200
              /\ response = InvalidCredentialsPage

Recordings == 1..Len(page.recorders)

\* C23: each recording started on the capture page sends at most one upload
\* to /api/store-recording, none while it records and exactly one once its
\* recorder has stopped and the stop event was dispatched, whichever of the
\* stop button, the ended track and the auto-stop timer occur and in whatever
\* order; a stopped recorder is never stopped again.
C23_OneUploadPerRecording ==
    /\ [](\A r \in Recordings :
            LET rec == page.recorders[r] IN
            /\ rec.uploads <= 1
            /\ rec.state = "recording" => (rec.uploads = 0 /\ rec.stop_queued = 0)
            /\ rec.state = "inactive" => rec.uploads + rec.stop_queued = 1)
    /\ [][\A r \in Recordings :
            page.recorders[r].state = "inactive" =>
                /\ page'.recorders[r].state = "inactive"
                /\ page'.recorders[r].stop_queued <= page.recorders[r].stop_queued
                /\ page'.recorders[r].stopped_by = page.recorders[r].stopped_by]_vars

\* two recordings were made: the first was stopped with the button and its
\* timer fired afterwards, the second was stopped by a timer; each sent one
\* upload
C23_Witness ==
    /\ Len(page.recorders) = 2
    /\ page.recorders[1].stopped_by = "button"
    /\ ~page.recorders[1].timer_pending
    /\ page.recorders[2].stopped_by = "timer"
    /\ page.recorders[1].uploads = 1
    /\ page.recorders[2].uploads = 1

\* C24: the automatic stop ends a recording only when that recording has been
\* running for 15 minutes: no recording is stopped by a timer callback
\* earlier than 15 minutes after its own start.
C24_AutoStopAfter15Minutes ==
    [][\A r \in Recordings :
          (page'.recorders[r].stopped_by = "timer" /\ page.recorders[r].stopped_by # "timer")
              => page.clock >= page.recorders[r].started_at + AutoStopMinutes]_vars

====
